---- MODULE Spec2Model ----
(***************************************************************************)
(* Model of src/eks-lambda/handler.py: a Lambda handler that authenticates *)
(* to an EKS cluster and proxies the event to a Kubernetes service.        *)
(*                                                                         *)
(* Spec      : invocations of handler() running in one Python process.     *)
(* FairSpec  : Spec with the fairness the code's timeouts justify.         *)
(* SpecToken : _get_bearer_token's encoding, applied to bounded inputs.    *)
(* SpecHeaders: the header_params expression of the proxy request.         *)
(***************************************************************************)
EXTENDS Integers, Sequences, FiniteSets, TLC

VARIABLES
    env,            \* os.environ of the process (handler.py:184-191)
    pc,             \* position of every invocation inside handler()
    err,            \* exception that ended the invocation, if any
    cluster_info,   \* result of _get_cluster_info (per invocation)
    sts_token,      \* result of _get_bearer_token (per invocation)
    ca_file,        \* name of the NamedTemporaryFile of the invocation, 0 = none
    files,          \* temporary files that exist on the filesystem
    defaultConfig,  \* kube_client.Configuration._default (process global)
    listCfg,        \* configuration copied by CoreV1Api() of the invocation
    proxyCfg,       \* configuration copied by ApiClient() of the invocation
    available_services, \* result of _list_namespaced_services
    timer,          \* _request_timeout of the API-server call in flight, 0 = none
    sentHeaders,    \* header_params handed to call_api by the invocation
    response,       \* HTTPResponse of the proxy call
    result,         \* value returned by handler()
    trace,          \* steps the invocation has performed, in order
    mint,           \* SpecToken: inputs and outputs of _get_bearer_token
    hdr             \* SpecHeaders: inputs and output of the header expression

vars == <<env, pc, err, cluster_info, sts_token, ca_file, files, defaultConfig,
          listCfg, proxyCfg, available_services, timer,
          sentHeaders, response, result, trace, mint, hdr>>

handlerVars == <<env, pc, err, cluster_info, sts_token, ca_file, files,
                 defaultConfig, listCfg, proxyCfg, available_services,
                 timer, sentHeaders, response, result, trace>>

----------------------------------------------------------------------------
(* Bounds *)

NumInvocations == 2

----------------------------------------------------------------------------
(* Configuration constants of handler.py *)

DEFAULT_REGION == "eu-central-1"
DEFAULT_SERVICE_REQUEST_TIMEOUT == 30
HTTP_OK == 200

Invocations == 1..NumInvocations

\* SERVICE_NAME values the process may be configured with
ServiceNames == {"hello-svc", "missing-svc"}
\* services that may exist in the namespace
ClusterServices == {"hello-svc", "other-svc"}
\* statuses and bodies the proxied request may come back with
Statuses == {200, 201, 404, 500}
Bodies == {"ok", "oops"}

None == "None"
NoError == [type |-> None, status |-> 0, body |-> None]
NoInfo == [endpoint |-> None, certificate |-> None]
NoToken == [cluster |-> None, region |-> None, mintedBy |-> 0]
NoResponse == [status |-> 0, data |-> None]
NoResult == [status_code |-> 0, response |-> NoResponse]
\* kubernetes.client.Configuration() before set_default was ever called
InitialConfig == [host |-> "http://localhost", ssl_ca_cert |-> 0, api_key |-> NoToken]
NoConfig == [host |-> None, ssl_ca_cert |-> 0, api_key |-> NoToken]
\* _list_namespaced_services has not returned
NotListed == [returned |-> FALSE, names |-> {}]

----------------------------------------------------------------------------
(* Python values used by the proxy request's header expression *)

PyNone == [isNone |-> TRUE, dict |-> <<>>]
PyDict(d) == [isNone |-> FALSE, dict |-> d]

\* dict.update(other): merges other into the receiver in place (keys of other
\* win) and returns None.  self is the receiver after the call, ret the value
\* of the call expression.
DictUpdate(d, other) ==
    [self |-> [k \in (DOMAIN d) \cup (DOMAIN other) |->
                  IF k \in DOMAIN other THEN other[k] ELSE d[k]],
     ret  |-> PyNone]

\* the literal {"Accept": "*/*"} of handler.py:169
AcceptAll == [k \in {"Accept"} |-> "*/*"]

\* header_params={"Accept": "*/*"}.update(headers)   (handler.py:169)
HeaderParams(headers) == DictUpdate(AcceptAll, headers).ret

\* headers of the outgoing request that come from header_params: call_api
\* treats a None header_params as no headers
OutgoingHeaders(header_params) ==
    IF header_params.isNone THEN <<>> ELSE header_params.dict

----------------------------------------------------------------------------
(* handler(): helpers *)

\* eks.describe_cluster(name)['cluster'] for the configured cluster
ClusterInfoOf(cluster) ==
    [endpoint |-> "https://" \o cluster \o ".eks.amazonaws.com",
     certificate |-> "ca-" \o cluster]

\* configuration built by _authenticate_to_eks_cluster
KubeConfiguration(cluster_endpoint, ca_cert_path, token) ==
    [host |-> cluster_endpoint, ssl_ca_cert |-> ca_cert_path, api_key |-> token]

\* variant: the temporary file is left on disk
ExitWithKeep(fs, i) == fs

\* leaving the `with NamedTemporaryFile(...)` block removes the file
ExitWith(fs, i) == fs \ {ca_file[i]}

\* an exception leaves handler(): the invocation has failed
Raise(i, e) ==
    /\ pc' = [pc EXCEPT ![i] = "Failed"]
    /\ err' = [err EXCEPT ![i] = e]

Error(type) == [type |-> type, status |-> 0, body |-> None]
\* kubernetes.client.ApiException(http_resp=r): carries status and body
ApiException(status, body) == [type |-> "ApiException", status |-> status, body |-> body]

Log(i, step) == trace' = [trace EXCEPT ![i] = Append(@, step)]

\* variant: the rest client returns every response, whatever its status
CallApiNeverRaises(status) == FALSE

\* rest client: a response outside 200..299 is raised as ApiException,
\* anything else is returned to the caller of call_api
CallApiRaises(status) == ~(200 <= status /\ status <= 299)

\* variant: the status of the response is not checked
AssertSkipped(status) == TRUE

\* assert response.status == HTTPStatus.OK.value   (handler.py:215)
AssertOk(status) == status = HTTP_OK

----------------------------------------------------------------------------
(* handler(): one action per step; a step that raises inside the `with`    *)
(* block unwinds through it in the same step.                              *)

\* handler.py:184-194, 48-50: read the environment, call eks.describe_cluster
Invoke(i) ==
    /\ pc[i] = "Idle"
    /\ pc' = [pc EXCEPT ![i] = "DescribeCluster"]
    /\ Log(i, "describe_cluster")
    /\ UNCHANGED <<env, err, cluster_info, sts_token, ca_file, files, defaultConfig,
                   listCfg, proxyCfg, available_services, timer, sentHeaders,
                   response, result, mint, hdr>>

\* handler.py:194-196: describe_cluster answered; endpoint and CA extracted
DescribeClusterReply(i) ==
    /\ pc[i] = "DescribeCluster"
    /\ pc' = [pc EXCEPT ![i] = "MetadataFetched"]
    /\ cluster_info' = [cluster_info EXCEPT ![i] = ClusterInfoOf(env.cluster)]
    /\ UNCHANGED <<env, err, sts_token, ca_file, files, defaultConfig, listCfg,
                   proxyCfg, available_services, timer, sentHeaders, response,
                   result, trace, mint, hdr>>

\* handler.py:194-196: describe_cluster raised (unknown cluster, no access,
\* network error) or the certificate data did not decode
DescribeClusterFail(i) ==
    /\ pc[i] = "DescribeCluster"
    /\ Raise(i, Error("ClientError"))
    /\ UNCHANGED <<env, cluster_info, sts_token, ca_file, files, defaultConfig,
                   listCfg, proxyCfg, available_services, timer, sentHeaders,
                   response, result, trace, mint, hdr>>

\* handler.py:197, 79-81: _get_bearer_token calls sts.get_caller_identity
GetCallerIdentity(i) ==
    /\ pc[i] = "MetadataFetched"
    /\ pc' = [pc EXCEPT ![i] = "GetCallerIdentity"]
    /\ Log(i, "get_caller_identity")
    /\ UNCHANGED <<env, err, cluster_info, sts_token, ca_file, files, defaultConfig,
                   listCfg, proxyCfg, available_services, timer, sentHeaders,
                   response, result, mint, hdr>>

\* variant: the signer asks STS itself before it signs
SigningStepsWithCall == <<"get_caller_identity", "generate_presigned_url">>

\* steps that signing the request adds to the trace: generate_presigned_url
\* computes the signature locally
SigningSteps == <<"generate_presigned_url">>

\* handler.py:81-110: identity printed, request signed, token built.  The
\* token is identified here by what it was minted for and by whom; its
\* encoding is GetBearerToken below.
GetCallerIdentityReply(i) ==
    /\ pc[i] = "GetCallerIdentity"
    /\ pc' = [pc EXCEPT ![i] = "TokenMinted"]
    /\ sts_token' = [sts_token EXCEPT ![i] =
                        [cluster |-> env.cluster, region |-> env.region, mintedBy |-> i]]
    /\ trace' = [trace EXCEPT ![i] = @ \o SigningSteps]
    /\ UNCHANGED <<env, err, cluster_info, ca_file, files, defaultConfig, listCfg,
                   proxyCfg, available_services, timer, sentHeaders, response,
                   result, mint, hdr>>

\* handler.py:81-107: get_caller_identity raised, or no credentials to sign with
GetCallerIdentityFail(i) ==
    /\ pc[i] = "GetCallerIdentity"
    /\ Raise(i, Error("ClientError"))
    /\ UNCHANGED <<env, cluster_info, sts_token, ca_file, files, defaultConfig,
                   listCfg, proxyCfg, available_services, timer, sentHeaders,
                   response, result, trace, mint, hdr>>

\* handler.py:198-201, 113-126: the CA goes to a fresh temporary file and the
\* configuration becomes the process-wide default
Authenticate(i) ==
    /\ pc[i] = "TokenMinted"
    /\ pc' = [pc EXCEPT ![i] = "Authenticated"]
    /\ ca_file' = [ca_file EXCEPT ![i] = i]
    /\ files' = files \cup {i}
    /\ defaultConfig' = KubeConfiguration(cluster_info[i].endpoint, i, sts_token[i])
    /\ Log(i, "set_default")
    /\ UNCHANGED <<env, err, cluster_info, sts_token, listCfg, proxyCfg,
                   available_services, timer, sentHeaders, response, result,
                   mint, hdr>>

\* the TLS context of a client can be built only from a CA file that exists
CaLoadable(cfg) == cfg.ssl_ca_cert \in files

\* variant: any non-empty list lets the request through
ServiceAvailableNonEmpty(service, services) == services # {}

\* `if service not in available_services`   (handler.py:203)
ServiceAvailable(service, services) == service \in services

\* handler.py:202, 135-139: CoreV1Api() copies the default configuration and
\* the list request is sent; no _request_timeout is passed
ListServices(i) ==
    /\ pc[i] = "Authenticated"
    /\ listCfg' = [listCfg EXCEPT ![i] = defaultConfig]
    /\ timer' = [timer EXCEPT ![i] = 0]
    /\ Log(i, "list_namespaced_service")
    /\ IF CaLoadable(defaultConfig)
         THEN /\ pc' = [pc EXCEPT ![i] = "Listing"]
              /\ UNCHANGED <<err, files>>
         ELSE /\ Raise(i, Error("SSLError"))
              /\ files' = ExitWith(files, i)
    /\ UNCHANGED <<env, cluster_info, sts_token, ca_file, defaultConfig, proxyCfg,
                   available_services, sentHeaders, response, result, mint, hdr>>

\* handler.py:138-144, 203-204: the list came back; the configured service
\* must be in it
ListServicesReply(i, services) ==
    /\ pc[i] = "Listing"
    /\ available_services' = [available_services EXCEPT ![i] =
                                  [returned |-> TRUE, names |-> services]]
    /\ IF ServiceAvailable(env.service, services)
         THEN /\ pc' = [pc EXCEPT ![i] = "ServiceValidated"]
              /\ UNCHANGED <<err, files>>
         ELSE /\ Raise(i, Error("ValueError"))
              /\ files' = ExitWith(files, i)
    /\ UNCHANGED <<env, cluster_info, sts_token, ca_file, defaultConfig, listCfg,
                   proxyCfg, timer, sentHeaders, response, result, trace, mint, hdr>>

\* variant: a failed list call is tried again
ListServicesRetry(i, status, body) ==
    /\ pc[i] = "Listing"
    /\ CallApiRaises(status)
    /\ pc' = [pc EXCEPT ![i] = "Authenticated"]
    /\ UNCHANGED <<env, err, cluster_info, sts_token, ca_file, files, defaultConfig,
                   listCfg, proxyCfg, available_services, timer, sentHeaders,
                   response, result, trace, mint, hdr>>

\* handler.py:140-142: the list call raised ApiException, which is re-raised
ListServicesFail(i, status, body) ==
    /\ pc[i] = "Listing"
    /\ CallApiRaises(status)
    /\ Raise(i, ApiException(status, body))
    /\ files' = ExitWith(files, i)
    /\ UNCHANGED <<env, cluster_info, sts_token, ca_file, defaultConfig, listCfg,
                   proxyCfg, available_services, timer, sentHeaders, response,
                   result, trace, mint, hdr>>

\* handler.py:205-214, 163-176: ApiClient() copies the default configuration
\* and the proxy request is sent with headers={} and the configured timeout
ProxyRequest(i) ==
    /\ pc[i] = "ServiceValidated"
    /\ proxyCfg' = [proxyCfg EXCEPT ![i] = defaultConfig]
    /\ sentHeaders' = [sentHeaders EXCEPT ![i] = OutgoingHeaders(HeaderParams(<<>>))]
    /\ timer' = [timer EXCEPT ![i] = env.timeout]
    /\ Log(i, "call_api")
    /\ IF CaLoadable(defaultConfig)
         THEN /\ pc' = [pc EXCEPT ![i] = "Proxying"]
              /\ UNCHANGED <<err, files>>
         ELSE /\ Raise(i, Error("SSLError"))
              /\ files' = ExitWith(files, i)
    /\ UNCHANGED <<env, cluster_info, sts_token, ca_file, defaultConfig, listCfg,
                   available_services, response, result, mint, hdr>>

\* handler.py:166-177, 215-225: the proxied response came back
ProxyReply(i, status, body) ==
    /\ pc[i] = "Proxying"
    /\ response' = [response EXCEPT ![i] = [status |-> status, data |-> body]]
    /\ files' = ExitWith(files, i)
    /\ IF CallApiRaises(status)
         THEN /\ Raise(i, ApiException(status, body))
              /\ UNCHANGED <<result, trace>>
         ELSE IF ~AssertOk(status)
         THEN /\ Raise(i, Error("AssertionError"))
              /\ UNCHANGED <<result, trace>>
         ELSE /\ pc' = [pc EXCEPT ![i] = "Done"]
              /\ result' = [result EXCEPT ![i] =
                               [status_code |-> HTTP_OK,
                                response |-> [status |-> status, data |-> body]]]
              /\ Log(i, "return")
              /\ UNCHANGED err
    /\ UNCHANGED <<env, cluster_info, sts_token, ca_file, defaultConfig, listCfg,
                   proxyCfg, available_services, timer, sentHeaders, mint, hdr>>

\* handler.py:176: no answer within _request_timeout; the call is abandoned
ProxyTimeout(i) ==
    /\ pc[i] = "Proxying"
    /\ timer[i] > 0
    /\ Raise(i, Error("ReadTimeoutError"))
    /\ files' = ExitWith(files, i)
    /\ UNCHANGED <<env, cluster_info, sts_token, ca_file, defaultConfig, listCfg,
                   proxyCfg, available_services, timer, sentHeaders, response,
                   result, trace, mint, hdr>>

----------------------------------------------------------------------------
(* Specification of the handler *)

NoParams == [method |-> "", url |-> "", headers |-> <<>>]
NoMint == [cluster_name |-> "", region |-> "", signature |-> "",
           params |-> NoParams, signed_url |-> "", token |-> "", done |-> FALSE]
NoHdr == [headers |-> <<>>, sent |-> <<>>, done |-> FALSE]

\* environments the process may run with
Environments == [cluster : {"demo"}, region : {DEFAULT_REGION},
                 service : ServiceNames, timeout : {DEFAULT_SERVICE_REQUEST_TIMEOUT}]

\* no invocation has started yet
HandlerIdle ==
    /\ pc = [i \in Invocations |-> "Idle"]
    /\ err = [i \in Invocations |-> NoError]
    /\ cluster_info = [i \in Invocations |-> NoInfo]
    /\ sts_token = [i \in Invocations |-> NoToken]
    /\ ca_file = [i \in Invocations |-> 0]
    /\ files = {}
    /\ defaultConfig = InitialConfig
    /\ listCfg = [i \in Invocations |-> NoConfig]
    /\ proxyCfg = [i \in Invocations |-> NoConfig]
    /\ available_services = [i \in Invocations |-> NotListed]
    /\ timer = [i \in Invocations |-> 0]
    /\ sentHeaders = [i \in Invocations |-> <<>>]
    /\ response = [i \in Invocations |-> NoResponse]
    /\ result = [i \in Invocations |-> NoResult]
    /\ trace = [i \in Invocations |-> <<>>]

Init ==
    /\ env \in Environments
    /\ HandlerIdle
    /\ mint = NoMint
    /\ hdr = NoHdr

Next ==
    \E i \in Invocations :
        \/ Invoke(i)
        \/ DescribeClusterReply(i)
        \/ DescribeClusterFail(i)
        \/ GetCallerIdentity(i)
        \/ GetCallerIdentityReply(i)
        \/ GetCallerIdentityFail(i)
        \/ Authenticate(i)
        \/ ListServices(i)
        \/ \E services \in SUBSET ClusterServices : ListServicesReply(i, services)
        \/ \E status \in Statuses, body \in Bodies : ListServicesFail(i, status, body)
        \/ ProxyRequest(i)
        \/ \E status \in Statuses, body \in Bodies : ProxyReply(i, status, body)
        \/ ProxyTimeout(i)

Spec == Init /\ [][Next]_vars

----------------------------------------------------------------------------
(* _get_bearer_token: the token encoding (handler.py:72-110)               *)

MaxSigLen == 3

EKS_CLUSTER_NAME_PARAMETER == "x-k8s-aws-id"
EKS_TOKEN_PREFIX == "k8s-aws-v1."

\* the printable ASCII characters, code 32 first; codes 34, 92 and 96, which
\* a string constant cannot hold and a URL does not contain, are left blank
Printable == " ! #$%&'()*+,-./0123456789:;<=>?@ABCDEFGHIJKLMNOPQRSTUVWXYZ[ ]^_ abcdefghijklmnopqrstuvwxyz{|}~"

Char(s, k) == SubSeq(s, k, k)
Ord(c) == 31 + (CHOOSE k \in 1..Len(Printable) : Char(Printable, k) = c)
Chr(n) == Char(Printable, n - 31)

\* str.encode('utf-8') of an ASCII string: one byte per character
Utf8Encode(s) == [k \in 1..Len(s) |-> Ord(Char(s, k))]

\* the URL-safe base64 alphabet
B64Alphabet == "ABCDEFGHIJKLMNOPQRSTUVWXYZabcdefghijklmnopqrstuvwxyz0123456789-_"
B64Char(n) == Char(B64Alphabet, n + 1)

\* concatenation of the strings f[lo], ..., f[hi]
RECURSIVE Join(_, _, _)
Join(f, lo, hi) ==
    IF lo > hi THEN ""
    ELSE IF lo = hi THEN f[lo]
    ELSE LET mid == (lo + hi) \div 2
         IN  Join(f, lo, mid) \o Join(f, mid + 1, hi)

\* base64 of one group of one to three bytes, padded to four characters
B64Group(g) ==
    IF Len(g) = 1 THEN
        B64Char(g[1] \div 4) \o B64Char((g[1] % 4) * 16) \o "=="
    ELSE IF Len(g) = 2 THEN
        B64Char(g[1] \div 4)
          \o B64Char((g[1] % 4) * 16 + g[2] \div 16)
          \o B64Char((g[2] % 16) * 4) \o "="
    ELSE
        B64Char(g[1] \div 4)
          \o B64Char((g[1] % 4) * 16 + g[2] \div 16)
          \o B64Char((g[2] % 16) * 4 + g[3] \div 64)
          \o B64Char(g[3] % 64)

\* base64.urlsafe_b64encode(bytes).decode('utf-8')
UrlsafeB64Encode(bytes) ==
    LET n == Len(bytes)
        groups == (n + 2) \div 3
        last(g) == IF 3 * g <= n THEN 3 * g ELSE n
    IN  Join([g \in 1..groups |-> B64Group(SubSeq(bytes, 3 * g - 2, last(g)))],
             1, groups)

\* variant: the padding is left in place
ReSubNothing(s) == s

\* re.sub(r'=*', '', s): every run of '=' is replaced by the empty string
ReSubPadding(s) ==
    Join([k \in 1..Len(s) |-> IF Char(s, k) = "=" THEN "" ELSE Char(s, k)],
         1, Len(s))

\* STS_URL.format(region)
StsUrl(region) ==
    "https://sts." \o region \o ".amazonaws.com/?Action=GetCallerIdentity&Version=2011-06-15"

\* the request description handed to the signer (handler.py:92-100)
SignParams(cluster_name, region) ==
    [method  |-> "GET",
     url     |-> StsUrl(region),
     headers |-> [h \in {EKS_CLUSTER_NAME_PARAMETER} |-> cluster_name]]

\* RequestSigner.generate_presigned_url: the query of the given URL is
\* extended by the signature parameters; signature stands for the part that
\* depends on the credentials, the time and the signed header values
GeneratePresignedUrl(params, signature) ==
    params.url \o "&X-Amz-Algorithm=AWS4-HMAC-SHA256&X-Amz-Expires=60"
               \o "&X-Amz-SignedHeaders=host%3B" \o EKS_CLUSTER_NAME_PARAMETER
               \o "&X-Amz-Signature=" \o signature

\* handler.py:108-110
EncodeToken(signed_url) ==
    EKS_TOKEN_PREFIX \o ReSubPadding(UrlsafeB64Encode(Utf8Encode(signed_url)))

ClusterNames == {"demo", "prod-eks"}
Regions == {"eu-central-1", "us-east-1"}
HexDigits == {"0", "f"}
RECURSIVE HexStrings(_)
HexStrings(n) ==
    IF n = 0 THEN {""}
    ELSE LET shorter == HexStrings(n - 1)
         IN  shorter \cup {s \o d : s \in shorter, d \in HexDigits}
Signatures == HexStrings(MaxSigLen)

InitToken ==
    /\ env \in {e \in Environments : e.service = "hello-svc"}
    /\ HandlerIdle
    /\ hdr = NoHdr
    /\ mint \in [cluster_name : ClusterNames, region : Regions,
                 signature : Signatures, params : {NoParams},
                 signed_url : {""}, token : {""}, done : {FALSE}]

\* _get_bearer_token(cluster_name, region)
GetBearerToken ==
    /\ ~mint.done
    /\ LET params == SignParams(mint.cluster_name, mint.region)
           signed_url == GeneratePresignedUrl(params, mint.signature)
       IN  mint' = [mint EXCEPT !.params = params,
                                !.signed_url = signed_url,
                                !.token = EncodeToken(signed_url),
                                !.done = TRUE]
    /\ UNCHANGED <<handlerVars, hdr>>

NextToken == GetBearerToken

SpecToken == InitToken /\ [][NextToken]_vars

----------------------------------------------------------------------------
(* The header expression of _proxy_http_request_kubernetes_service         *)
(* (handler.py:169), applied to bounded caller header maps                 *)

HeaderNames == {"Accept", "X-Test", "X-Trace", "Content-Type"}
HeaderValues == {"1", "application/json"}
HeaderMaps == UNION {[D -> HeaderValues] : D \in SUBSET HeaderNames}

InitHeaders ==
    /\ env \in {e \in Environments : e.service = "hello-svc"}
    /\ HandlerIdle
    /\ mint = NoMint
    /\ hdr \in [headers : HeaderMaps, sent : {<<>>}, done : {FALSE}]

\* the header_params of the call_api call for the given caller headers
ProxyHeaders ==
    /\ ~hdr.done
    /\ hdr' = [hdr EXCEPT !.sent = OutgoingHeaders(HeaderParams(hdr.headers)),
                          !.done = TRUE]
    /\ UNCHANGED <<handlerVars, mint>>

NextHeaders == ProxyHeaders

SpecHeaders == InitHeaders /\ [][NextHeaders]_vars

----------------------------------------------------------------------------
(* Fairness: every step of handler() that does not wait for the API server *)
(* is taken; the AWS calls answer or fail, and the proxy call answers or    *)
(* runs into its _request_timeout.  The list call has no timeout, so        *)
(* nothing forces its answer.                                               *)

Fairness ==
    \A i \in Invocations :
        /\ WF_vars(Invoke(i))
        /\ WF_vars(DescribeClusterReply(i) \/ DescribeClusterFail(i))
        /\ WF_vars(GetCallerIdentity(i))
        /\ WF_vars(GetCallerIdentityReply(i) \/ GetCallerIdentityFail(i))
        /\ WF_vars(Authenticate(i))
        /\ WF_vars(ListServices(i))
        /\ WF_vars(ProxyRequest(i))
        /\ WF_vars((\E status \in Statuses, body \in Bodies : ProxyReply(i, status, body))
                      \/ ProxyTimeout(i))

FairSpec == Init /\ [][Next]_vars /\ Fairness

----------------------------------------------------------------------------
(* Properties *)

Range(f) == {f[k] : k \in DOMAIN f}
IsPrefix(s, t) == Len(s) <= Len(t) /\ SubSeq(t, 1, Len(s)) = s
Count(s, x) == Cardinality({k \in DOMAIN s : s[k] = x})
Ended(i) == pc[i] \in {"Done", "Failed"}

\* C1: the proxy request is sent only if the configured service is in the
\* list this invocation got back; if it is absent (also from an empty list)
\* the invocation fails with ValueError and has sent no proxy request.
C1_ProxyOnlyIfListed ==
    \A i \in Invocations :
        /\ "call_api" \in Range(trace[i]) =>
              /\ available_services[i].returned
              /\ env.service \in available_services[i].names
        /\ (available_services[i].returned
              /\ env.service \notin available_services[i].names) =>
              /\ pc[i] = "Failed"
              /\ err[i].type = "ValueError"
              /\ "call_api" \notin Range(trace[i])

C1_Witness ==
    \E i \in Invocations :
        /\ available_services[i].returned
        /\ available_services[i].names = {}
        /\ pc[i] = "Failed"
        /\ err[i].type = "ValueError"

\* C2: once an invocation has ended, however it ended, its temporary CA
\* file does not exist; an invocation that failed before creating the file
\* leaves none behind.
C2_CaFileRemoved ==
    \A i \in Invocations :
        Ended(i) => /\ i \notin files
                    /\ ca_file[i] \notin files

C2_Witness ==
    \E i \in Invocations :
        /\ pc[i] = "Failed"
        /\ err[i].type = "ReadTimeoutError"
        /\ ca_file[i] = i
        /\ i \notin files

\* C3: the headers sent with the proxy request are Accept: */* merged with
\* the caller's headers: every caller header is sent, Accept is sent, and a
\* caller-supplied Accept wins.
C3_HeaderMerge ==
    hdr.done =>
        /\ \A k \in DOMAIN hdr.headers :
              k \in DOMAIN hdr.sent /\ hdr.sent[k] = hdr.headers[k]
        /\ "Accept" \in DOMAIN hdr.sent
        /\ ("Accept" \notin DOMAIN hdr.headers /\ "Accept" \in DOMAIN hdr.sent)
              => hdr.sent["Accept"] = "*/*"

\* the order of the steps of one invocation
FixedOrder == <<"describe_cluster", "get_caller_identity", "generate_presigned_url",
                "set_default", "list_namespaced_service", "call_api", "return">>

Positions == <<"Idle", "DescribeCluster", "MetadataFetched", "GetCallerIdentity",
               "TokenMinted", "Authenticated", "Listing", "ServiceValidated",
               "Proxying", "Done", "Failed">>
Rank(p) == CHOOSE k \in DOMAIN Positions : Positions[k] = p

\* C4: the steps of an invocation are taken in the fixed order, each at most
\* once; an error puts the invocation in Failed; a Failed invocation stays
\* Failed and takes no further step, and no invocation moves backwards.
C4_FixedOrder ==
    /\ [](\A i \in Invocations :
             /\ IsPrefix(trace[i], FixedOrder)
             /\ (err[i] # NoError) <=> (pc[i] = "Failed"))
    /\ [][\A i \in Invocations :
             /\ pc[i] = "Failed" => (pc'[i] = "Failed" /\ trace'[i] = trace[i])
             /\ Rank(pc'[i]) >= Rank(pc[i])]_vars

C4_Witness ==
    \E i, j \in Invocations :
        /\ pc[i] = "Done"
        /\ trace[i] = FixedOrder
        /\ pc[j] = "Failed"
        /\ trace[j] = SubSeq(FixedOrder, 1, 5)

\* C5: a proxied response with a status outside 200..299 ends the invocation
\* in Failed with an ApiException carrying that status and body, and nothing
\* is returned.
C5_NonSuccessRaises ==
    \A i \in Invocations :
        (response[i] # NoResponse
           /\ ~(200 <= response[i].status /\ response[i].status <= 299)) =>
              /\ pc[i] = "Failed"
              /\ err[i] = ApiException(response[i].status, response[i].data)
              /\ result[i] = NoResult

C5_Witness ==
    \E i \in Invocations :
        /\ response[i] = [status |-> 404, data |-> "oops"]
        /\ pc[i] = "Failed"
        /\ err[i].type = "ApiException"

\* the configuration the invocation itself set up
OwnConfiguration(i) ==
    KubeConfiguration(cluster_info[i].endpoint, ca_file[i], sts_token[i])

\* C6: the list and proxy calls of an invocation use the endpoint, token and
\* CA file this invocation set up, and never a CA file that is already gone.
C6_OwnConfiguration ==
    \A i \in Invocations :
        /\ listCfg[i] # NoConfig => listCfg[i] = OwnConfiguration(i)
        /\ proxyCfg[i] # NoConfig => proxyCfg[i] = OwnConfiguration(i)
        /\ err[i].type # "SSLError"

\* where a step goes
Endpoint(step) ==
    CASE step = "describe_cluster" -> "eks"
      [] step = "get_caller_identity" -> "sts"
      [] step \in {"list_namespaced_service", "call_api"} -> "kubernetes"
      [] OTHER -> "local"

B64Index(c) == CHOOSE n \in 0..63 : B64Char(n) = c
B64Ungroup(q) ==
    LET v(k) == B64Index(Char(q, k))
        b1 == v(1) * 4 + v(2) \div 16
    IN  IF Char(q, 3) = "=" THEN <<b1>>
        ELSE LET b2 == (v(2) % 16) * 16 + v(3) \div 4
             IN  IF Char(q, 4) = "=" THEN <<b1, b2>>
                 ELSE <<b1, b2, (v(3) % 4) * 64 + v(4)>>
RECURSIVE Flatten(_, _, _)
Flatten(f, lo, hi) ==
    IF lo > hi THEN <<>>
    ELSE IF lo = hi THEN f[lo]
    ELSE LET mid == (lo + hi) \div 2
         IN  Flatten(f, lo, mid) \o Flatten(f, mid + 1, hi)
UrlsafeB64Decode(s) ==
    Flatten([g \in 1..(Len(s) \div 4) |-> B64Ungroup(SubSeq(s, 4 * g - 3, 4 * g))],
            1, Len(s) \div 4)
Utf8Decode(bytes) == Join([k \in DOMAIN bytes |-> Chr(bytes[k])], 1, Len(bytes))
RestorePadding(s) ==
    s \o (CASE Len(s) % 4 = 2 -> "==" [] Len(s) % 4 = 3 -> "=" [] OTHER -> "")
Contains(s, sub) ==
    \E k \in 1..(Len(s) - Len(sub) + 1) : SubSeq(s, k, k + Len(sub) - 1) = sub
TokenSuffix(token) == SubSeq(token, Len(EKS_TOKEN_PREFIX) + 1, Len(token))

C9_AlwaysEnds ==
    \A i \in Invocations : (pc[i] # "Idle") ~> Ended(i)

\* C10: a returned response means the proxied status was exactly 200 and the
\* returned status_code equals the returned response status; any other
\* status returns nothing and fails the invocation.
C10_ReturnedMeans200 ==
    \A i \in Invocations :
        /\ result[i] # NoResult =>
              /\ pc[i] = "Done"
              /\ response[i].status = HTTP_OK
              /\ result[i].status_code = result[i].response.status
              /\ result[i].response = response[i]
        /\ (response[i] # NoResponse /\ response[i].status # HTTP_OK) =>
              /\ pc[i] = "Failed"
              /\ result[i] = NoResult

C10_Witness ==
    \E i \in Invocations :
        /\ response[i].status = 201
        /\ pc[i] = "Failed"
        /\ err[i].type = "AssertionError"

====
